---- MODULE Spec2Model ----
(***************************************************************************)
(* Model of sury.py: the SURY urban-canopy parametrization (function       *)
(* sury).  A call is a straight-line run through the function body; the    *)
(* model follows it statement group by statement group, with one variable  *)
(* per Python local.                                                       *)
(*                                                                         *)
(* Numbers: Python floats are modelled as exact rationals [n, d] in lowest *)
(* terms (real arithmetic, no rounding).  numpy.exp and the power 0.25 are *)
(* irrational and are modelled as fixed-point approximations.              *)
(***************************************************************************)
EXTENDS Integers, Sequences, FiniteSets, TLC

(***************************************************************************)
(* Bounds of the model                                                     *)
(***************************************************************************)
Grid == 2

MaxZLen == 2

MaxCalls == 2

(***************************************************************************)
(* Exact rational arithmetic                                               *)
(***************************************************************************)
Abs(i) == IF i < 0 THEN -i ELSE i

RECURSIVE GCD(_, _)
GCD(a, b) == IF b = 0 THEN a ELSE GCD(b, a % b)

Q(n, d) ==
  LET s == IF d < 0 THEN -1 ELSE 1
      g == GCD(Abs(n), Abs(d))
  IN  [n |-> (s * n) \div g, d |-> (s * d) \div g]

Zero == [n |-> 0, d |-> 1]

One == [n |-> 1, d |-> 1]

Two == [n |-> 2, d |-> 1]

Add(a, b) ==
  LET g == GCD(a.d, b.d)
      l == (a.d \div g) * b.d
  IN  Q(a.n * (l \div a.d) + b.n * (l \div b.d), l)

Neg(a) == [n |-> -a.n, d |-> a.d]

Sub(a, b) == Add(a, Neg(b))

Mul(a, b) ==
  LET g1 == GCD(Abs(a.n), b.d)
      g2 == GCD(Abs(b.n), a.d)
  IN  Q((a.n \div g1) * (b.n \div g2), (a.d \div g2) * (b.d \div g1))

Div(a, b) == Mul(a, IF b.n < 0 THEN [n |-> -b.d, d |-> -b.n] ELSE [n |-> b.d, d |-> b.n])

Leq(a, b) == LET g == GCD(a.d, b.d) IN a.n * (b.d \div g) <= b.n * (a.d \div g)

Lt(a, b) == LET g == GCD(a.d, b.d) IN a.n * (b.d \div g) < b.n * (a.d \div g)

Min(a, b) == IF Leq(a, b) THEN a ELSE b

\* floor(100 * x) for x >= 0, without forming 100 * x.n
Floor100(x) == 100 * (x.n \div x.d) + (100 * (x.n % x.d)) \div x.d

RECURSIVE IsqrtIn(_, _, _)
IsqrtIn(v, lo, hi) ==
  IF lo >= hi THEN lo
  ELSE LET mid == (lo + hi + 1) \div 2
       IN  IF mid * mid <= v THEN IsqrtIn(v, mid, hi) ELSE IsqrtIn(v, lo, mid - 1)

\* integer square root (floor) of 0 <= v < 2^30
Isqrt(v) == IsqrtIn(v, 0, 32767)

(***************************************************************************)
(* numpy / Python primitives used by sury                                  *)
(***************************************************************************)
\* exp(-0.3 k), k = 1..6, rounded to two decimals
ExpTable == << Q(74, 100), Q(55, 100), Q(41, 100), Q(30, 100), Q(22, 100), Q(17, 100) >>

\* numpy.exp on the arguments -0.6*htw the model produces (htw a multiple of 1/2, htw <= 3)
exp(x) == IF x.n = 0 THEN One ELSE ExpTable[((-x.n) * 10) \div (3 * x.d)]

\* x ** 0.25 as two successive square roots, each truncated to one decimal
Pow025(x) == Q(Isqrt(10 * Isqrt(Floor100(x))), 10)

\* a depth argument is a Python scalar (one item, no axis) or a numpy array (sequence)
Scalar(x) == [shape |-> "scalar", v |-> << x >>]

Array(s) == [shape |-> "array", v |-> s]

zeros_like(a) == [shape |-> a.shape, v |-> [i \in 1..Len(a.v) |-> Zero]]

\* a + x for a scalar x: numpy broadcasting keeps the shape of a
AddScalar(a, x) == [shape |-> a.shape, v |-> [i \in 1..Len(a.v) |-> Add(a.v[i], x)]]

AminAxis0Mut(a, b) == [shape |-> a.shape, v |-> [i \in 1..Len(a.v) |-> Min(a.v[1], b.v[1])]]

\* amin([a, b], axis=0) for two operands of the same shape
AminAxis0(a, b) == [shape |-> a.shape, v |-> [i \in 1..Len(a.v) |-> Min(a.v[i], b.v[i])]]

GetitemOrZero(kw, k) ==
  IF k \in DOMAIN kw THEN [ok |-> TRUE, v |-> kw[k]] ELSE [ok |-> TRUE, v |-> Zero]

\* kwargs[k]: the value, or a KeyError naming k
Getitem(kw, k) ==
  IF k \in DOMAIN kw THEN [ok |-> TRUE, v |-> kw[k]] ELSE [ok |-> FALSE, key |-> k]

\* ('a' in kwargs.keys()) or ('b' in kwargs.keys()) or ('c' in kwargs.keys())
AnyKey(kw, ks) == \E i \in 1..Len(ks) : ks[i] \in DOMAIN kw

\* the first failing subscript of a left-to-right evaluation
FirstKeyError(gs) == gs[CHOOSE i \in 1..Len(gs) : ~gs[i].ok /\ \A j \in 1..(i - 1) : gs[j].ok]

AllOk(gs) == \A i \in 1..Len(gs) : gs[i].ok

(***************************************************************************)
(* The expressions of the function body                                    *)
(***************************************************************************)
HtwOutOfRangeMut(htw) == Leq(Two, htw)

\* line 105: htw > 2.0
HtwOutOfRange(htw) == Lt(Two, htw)

SAIofMut(htw, roof_f) == Add(One, Mul(Two, htw))

\* line 109
SAIof(htw, roof_f) ==
  Add(Mul(Add(One, Mul(Two, htw)), Sub(One, roof_f)), roof_f)

\* lines 113 and 116: facet-area weighted average
FacetAverage(roof, wall, road, htw, roof_f) ==
  Div(Add(Mul(roof, roof_f),
          Mul(Add(Mul(Mul(wall, Two), htw), road), Sub(One, roof_f))),
      Add(roof_f, Mul(Add(Mul(Two, htw), One), Sub(One, roof_f))))

WeightOfMut(z, h) == z

\* line 126
WeightOf(z, h) == AminAxis0(z, AddScalar(zeros_like(z), h))

\* lines 127 and 128
BlendAt(w, h, bulk_s, soil) == Add(Mul(Sub(One, Div(w, h)), bulk_s), Mul(Div(w, h), soil))

\* lines 127 and 128, element by element with the shape of weight
ProfileOf(wgt, h, bulk_s, soil) ==
  [shape |-> wgt.shape, v |-> [i \in 1..Len(wgt.v) |-> BlendAt(wgt.v[i], h, bulk_s, soil)]]

PsiCanyonClamped(htw) == exp(Mul(Q(-6, 10), Min(htw, Two)))

\* line 131
PsiCanyon(htw) == exp(Mul(Q(-6, 10), htw))

PsiBulkMut(roof_f, psi_c) == psi_c

\* line 132
PsiBulk(roof_f, psi_c) == Add(roof_f, Mul(Sub(One, roof_f), psi_c))

\* lines 135-137, 146-147: facet value blended with the snow value
SnowBlend(facet, snow, snow_f) == Add(Mul(facet, Sub(One, snow_f)), Mul(snow, snow_f))

CanyonRoofMixMut(road, wall, roof, htw, psi_c, roof_f) ==
  Add(Mul(Mul(Add(road, Mul(Mul(Two, htw), wall)), psi_c), Sub(One, roof_f)),
      Mul(roof, roof_f))

\* lines 138 and 148: road+wall scaled by psi_canyon, plus roof
CanyonRoofMix(road, wall, roof, htw, psi_c, roof_f) ==
  Add(Mul(Mul(Div(Add(road, Mul(Mul(Two, htw), wall)), Add(One, Mul(Two, htw))), psi_c),
          Sub(One, roof_f)),
      Mul(roof, roof_f))

\* line 141
AlbNoOverride(alb, alb_snow, snow_f, psi_b) ==
  Mul(Add(Mul(Sub(One, snow_f), alb), Mul(snow_f, alb_snow)), psi_b)

\* line 151
EmiNoOverride(emi, emi_snow, snow_f, psi_b) ==
  Sub(One, Mul(psi_b, Sub(One, Add(Mul(Sub(One, snow_f), emi), Mul(snow_f, emi_snow)))))

\* line 155
nu == Q(1461, 100000000)

\* lines 154-157
Z0of(h) == Mul(Q(75, 1000), h)

KBm1of(ustar, z0) == Sub(Mul(Q(129, 100), Pow025(Div(Mul(ustar, z0), nu))), Two)

(***************************************************************************)
(* State: the call's arguments, the locals of the running call, what the   *)
(* calls printed and what they returned or raised                          *)
(***************************************************************************)
VARIABLES pc, calls, args, kwargs,
          Cv_s, lam_s, SAI, Cv_bulk_s, lam_bulk_s, weight, Cv_bulk, lam_bulk,
          psi_canyon, psi_bulk, alb_bulk, emi_bulk,
          stdout, returned

input == << args, kwargs >>

thermal == << Cv_s, lam_s, SAI, Cv_bulk_s, lam_bulk_s, weight, Cv_bulk, lam_bulk >>

radiative == << psi_canyon, psi_bulk, alb_bulk, emi_bulk >>

vars == << pc, calls, args, kwargs, Cv_s, lam_s, SAI, Cv_bulk_s, lam_bulk_s, weight,
           Cv_bulk, lam_bulk, psi_canyon, psi_bulk, alb_bulk, emi_bulk, stdout, returned >>

\* a local name that is not bound
Unbound == [unbound |-> TRUE]

CvKeys == << "Cv_roof", "Cv_wall", "Cv_road" >>

lamKeys == << "lam_roof", "lam_wall", "lam_road" >>

\* order of the subscripts in lines 135-137
albKeys == << "alb_roof", "alb_road", "alb_wall" >>

\* order of the subscripts in lines 145-147
emiKeys == << "emi_roof", "emi_road", "emi_wall" >>

Keys == { "Cv_roof", "Cv_wall", "Cv_road", "lam_roof", "lam_wall", "lam_road",
          "alb_roof", "alb_wall", "alb_road", "emi_roof", "emi_wall", "emi_road" }

(***************************************************************************)
(* Arguments of the modelled calls                                         *)
(***************************************************************************)
\* lines 3-16: the defaults of the signature
Defaults ==
  [alb |-> Q(101, 1000), emi |-> Q(86, 100), lam_s |-> Q(767, 1000), Cv_s |-> Q(1250000, 1),
   h |-> Q(15, 1), htw |-> Q(3, 2), roof_f |-> Q(667, 1000), z |-> Scalar(Zero),
   lam_soil |-> Q(28, 100), Cv_soil |-> Q(1350000, 1), alb_snow |-> Q(70, 100),
   emi_snow |-> Q(997, 1000), snow_f |-> Zero, ustar |-> Q(25, 100)]

\* a call with every argument given explicitly (heat capacities in MJ m-3 K-1)
Base ==
  [alb |-> Q(1, 10), emi |-> Q(9, 10), lam_s |-> Q(3, 4), Cv_s |-> Q(5, 4),
   h |-> Q(15, 1), htw |-> Q(3, 2), roof_f |-> Q(1, 2), z |-> Scalar(Zero),
   lam_soil |-> Q(1, 4), Cv_soil |-> Q(27, 20), alb_snow |-> Q(7, 10),
   emi_snow |-> Q(19, 20), snow_f |-> Q(1, 2), ustar |-> Q(1, 4)]

Fractions == { Q(k, Grid) : k \in 0..Grid }

HtwValues == { Zero, Q(3, 2), Q(2, 1), Q(3, 1) }

Depths == { Zero, Q(15, 2), Q(30, 1) }

SnowValues == { Zero, Q(7, 10), One }

RECURSIVE SeqsUpTo(_, _)
SeqsUpTo(S, n) ==
  IF n = 0 THEN { << >> }
  ELSE LET shorter == SeqsUpTo(S, n - 1)
       IN  shorter \cup { Append(s, x) : s \in { t \in shorter : Len(t) = n - 1 }, x \in S }

\* the layer depths of the clamp scenario: [0, 7.5, 15, 30]
ScenarioDepths == << Zero, Q(15, 2), Q(15, 1), Q(30, 1) >>

ZValues ==
  { Scalar(d) : d \in Depths } \cup { Array(s) : s \in SeqsUpTo(Depths, MaxZLen) }
    \cup { Array(ScenarioDepths) }

NoKwargs == [k \in {} |-> Zero]

Triad(ks, roof, wall, road) ==
  [k \in { ks[1], ks[2], ks[3] } |-> IF k = ks[1] THEN roof ELSE IF k = ks[2] THEN wall ELSE road]

FacetTriads(ks) == { Triad(ks, r, w, d) : r \in Fractions, w \in { Zero, One }, d \in { Zero, One } }

\* the value each keyword carries in the calls that vary the set of keywords
KeyValue ==
  [Cv_roof |-> Q(1, 1), Cv_wall |-> Q(3, 2), Cv_road |-> Q(2, 1),
   lam_roof |-> Q(1, 2), lam_wall |-> Q(1, 1), lam_road |-> Q(3, 2),
   alb_roof |-> Q(1, 5), alb_wall |-> Q(2, 5), alb_road |-> Q(3, 5),
   emi_roof |-> Q(9, 10), emi_wall |-> Q(4, 5), emi_road |-> Q(1, 1)]

\* sury() with no argument
CallDefault == args = Defaults /\ kwargs = NoKwargs

\* calls that vary the albedo inputs
CallAlbedo ==
  /\ \E rf \in Fractions, sf \in Fractions, hw \in HtwValues \ {Q(2, 1)}, as \in SnowValues :
       \/ \E a \in Fractions :
            /\ args = [Base EXCEPT !.roof_f = rf, !.snow_f = sf, !.htw = hw,
                                   !.alb_snow = as, !.alb = a]
            /\ kwargs = NoKwargs
       \/ /\ args = [Base EXCEPT !.roof_f = rf, !.snow_f = sf, !.htw = hw, !.alb_snow = as]
          /\ kwargs \in FacetTriads(<< "alb_roof", "alb_wall", "alb_road" >>)

\* calls that vary the emissivity inputs
CallEmissivity ==
  /\ \E rf \in Fractions, sf \in Fractions, hw \in HtwValues \ {Q(2, 1)},
        es \in SnowValues, as \in { Q(7, 10) } :
       \/ \E e \in Fractions :
            /\ args = [Base EXCEPT !.roof_f = rf, !.snow_f = sf, !.htw = hw,
                                   !.emi_snow = es, !.alb_snow = as, !.emi = e]
            /\ kwargs = NoKwargs
       \/ /\ args = [Base EXCEPT !.roof_f = rf, !.snow_f = sf, !.htw = hw,
                                 !.emi_snow = es, !.alb_snow = as]
          /\ kwargs \in FacetTriads(<< "emi_roof", "emi_wall", "emi_road" >>)

\* calls that vary the thermal inputs and the depths
CallThermal ==
  /\ \E rf \in Fractions, hw \in { Q(3, 2), Q(3, 1) }, hh \in { Q(15, 1), Q(30, 1) },
        zz \in ZValues :
       args = [Base EXCEPT !.roof_f = rf, !.htw = hw, !.h = hh, !.z = zz]
  /\ \E S \in SUBSET { "Cv", "lam" } :
       kwargs = [k \in { CvKeys[i] : i \in { j \in 1..3 : "Cv" \in S } }
                       \cup { lamKeys[i] : i \in { j \in 1..3 : "lam" \in S } } |-> KeyValue[k]]

\* calls that vary which keywords are passed
CallKeywords ==
  /\ args = [Base EXCEPT !.htw = Q(2, 1)]
  /\ \E S \in SUBSET Keys : kwargs = [k \in S |-> KeyValue[k]]

Init ==
  /\ pc = "idle"
  /\ calls = 0
  /\ \/ CallDefault
     \/ CallAlbedo
     \/ CallEmissivity
     \/ CallThermal
     \/ CallKeywords
  /\ Cv_s = Unbound /\ lam_s = Unbound /\ SAI = Unbound
  /\ Cv_bulk_s = Unbound /\ lam_bulk_s = Unbound
  /\ weight = Unbound /\ Cv_bulk = Unbound /\ lam_bulk = Unbound
  /\ psi_canyon = Unbound /\ psi_bulk = Unbound
  /\ alb_bulk = Unbound /\ emi_bulk = Unbound
  /\ stdout = << >>
  /\ returned = << >>

(***************************************************************************)
(* The call, statement group by statement group                            *)
(***************************************************************************)
Printed(msg, val) == [stdout EXCEPT ![calls] = Append(@, [msg |-> msg, val |-> val])]

\* the frame of a finished call is discarded
DropFrame ==
  /\ Cv_s' = Unbound /\ lam_s' = Unbound /\ SAI' = Unbound
  /\ Cv_bulk_s' = Unbound /\ lam_bulk_s' = Unbound
  /\ weight' = Unbound /\ Cv_bulk' = Unbound /\ lam_bulk' = Unbound
  /\ psi_canyon' = Unbound /\ psi_bulk' = Unbound
  /\ alb_bulk' = Unbound /\ emi_bulk' = Unbound

\* an uncaught KeyError ends the call
Raise(err) ==
  /\ returned' = Append(returned, [kind |-> "KeyError", key |-> err.key])
  /\ pc' = "idle"
  /\ DropFrame

\* sury(**args, **kwargs) is entered: the parameters are bound
Call ==
  /\ pc = "idle"
  /\ calls < MaxCalls
  /\ calls' = calls + 1
  /\ pc' = "l105"
  /\ Cv_s' = args.Cv_s
  /\ lam_s' = args.lam_s
  /\ stdout' = Append(stdout, << >>)
  /\ UNCHANGED << input, SAI, Cv_bulk_s, lam_bulk_s, weight, Cv_bulk, lam_bulk,
                  radiative, returned >>

\* lines 105-109
CheckHtw ==
  /\ pc = "l105"
  /\ stdout' = IF HtwOutOfRange(args.htw) THEN Printed("htw outside of validity range", args.htw)
               ELSE stdout
  /\ SAI' = SAIof(args.htw, args.roof_f)
  /\ pc' = "l112"
  /\ UNCHANGED << calls, input, Cv_s, lam_s, Cv_bulk_s, lam_bulk_s, weight, Cv_bulk, lam_bulk,
                  radiative, returned >>

\* lines 112-114
ResolveCv ==
  /\ pc = "l112"
  /\ UNCHANGED << calls, input >>
  /\ IF AnyKey(kwargs, CvKeys)
     THEN LET g == [i \in 1..3 |-> Getitem(kwargs, CvKeys[i])]
          IN  IF AllOk(g)
              THEN LET v == FacetAverage(g[1].v, g[2].v, g[3].v, args.htw, args.roof_f)
                   IN  /\ Cv_s' = v
                       /\ stdout' = Printed("Cv_s is calculated", v)
                       /\ pc' = "l115"
                       /\ UNCHANGED << lam_s, SAI, Cv_bulk_s, lam_bulk_s, weight, Cv_bulk,
                                       lam_bulk, radiative, returned >>
              ELSE Raise(FirstKeyError(g)) /\ UNCHANGED stdout
     ELSE /\ pc' = "l115"
          /\ UNCHANGED << thermal, radiative, stdout, returned >>

\* lines 115-117
ResolveLam ==
  /\ pc = "l115"
  /\ UNCHANGED << calls, input >>
  /\ IF AnyKey(kwargs, lamKeys)
     THEN LET g == [i \in 1..3 |-> Getitem(kwargs, lamKeys[i])]
          IN  IF AllOk(g)
              THEN LET v == FacetAverage(g[1].v, g[2].v, g[3].v, args.htw, args.roof_f)
                   IN  /\ lam_s' = v
                       /\ stdout' = Printed("lam_s is calculated", v)
                       /\ pc' = "l121"
                       /\ UNCHANGED << Cv_s, SAI, Cv_bulk_s, lam_bulk_s, weight, Cv_bulk,
                                       lam_bulk, radiative, returned >>
              ELSE Raise(FirstKeyError(g)) /\ UNCHANGED stdout
     ELSE /\ pc' = "l121"
          /\ UNCHANGED << thermal, radiative, stdout, returned >>

\* lines 121-128
ThermalProfile ==
  /\ pc = "l121"
  /\ Cv_bulk_s' = Mul(SAI, Cv_s)
  /\ lam_bulk_s' = Mul(SAI, lam_s)
  /\ weight' = WeightOf(args.z, args.h)
  /\ Cv_bulk' = ProfileOf(weight', args.h, Cv_bulk_s', args.Cv_soil)
  /\ lam_bulk' = ProfileOf(weight', args.h, lam_bulk_s', args.lam_soil)
  /\ pc' = "l131"
  /\ UNCHANGED << calls, input, Cv_s, lam_s, SAI, radiative, stdout, returned >>

\* lines 131-141
Albedo ==
  /\ pc = "l131"
  /\ UNCHANGED << calls, input, stdout >>
  /\ LET psi_c == PsiCanyon(args.htw)
         psi_b == PsiBulk(args.roof_f, psi_c)
     IN  IF AnyKey(kwargs, albKeys)
         THEN LET g == [i \in 1..3 |-> Getitem(kwargs, albKeys[i])]
              IN  IF AllOk(g)
                  THEN LET alb_roof_snow == SnowBlend(g[1].v, args.alb_snow, args.snow_f)
                           alb_road_snow == SnowBlend(g[2].v, args.alb_snow, args.snow_f)
                           alb_wall_snow == SnowBlend(g[3].v, args.alb_snow, args.snow_f)
                       IN  /\ alb_bulk' = CanyonRoofMix(alb_road_snow, alb_wall_snow,
                                                        alb_roof_snow, args.htw, psi_c,
                                                        args.roof_f)
                           /\ psi_canyon' = psi_c
                           /\ psi_bulk' = psi_b
                           /\ pc' = "l144"
                           /\ UNCHANGED << thermal, emi_bulk, returned >>
                  ELSE Raise(FirstKeyError(g))
         ELSE /\ alb_bulk' = AlbNoOverride(args.alb, args.alb_snow, args.snow_f, psi_b)
              /\ psi_canyon' = psi_c
              /\ psi_bulk' = psi_b
              /\ pc' = "l144"
              /\ UNCHANGED << thermal, emi_bulk, returned >>

\* lines 144-151
Emissivity ==
  /\ pc = "l144"
  /\ UNCHANGED << calls, input, stdout >>
  /\ IF AnyKey(kwargs, emiKeys)
     THEN LET g == [i \in 1..3 |-> Getitem(kwargs, emiKeys[i])]
          IN  IF AllOk(g)
              THEN LET albth_roof_snow == SnowBlend(Sub(One, g[1].v), Sub(One, args.alb_snow),
                                                    args.snow_f)
                       albth_road_snow == SnowBlend(Sub(One, g[2].v), Sub(One, args.emi_snow),
                                                    args.snow_f)
                       albth_wall_snow == SnowBlend(Sub(One, g[3].v), Sub(One, args.emi_snow),
                                                    args.snow_f)
                   IN  /\ emi_bulk' = Sub(One, CanyonRoofMix(albth_road_snow, albth_wall_snow,
                                                             albth_roof_snow, args.htw,
                                                             psi_canyon, args.roof_f))
                       /\ pc' = "l154"
                       /\ UNCHANGED << thermal, psi_canyon, psi_bulk, alb_bulk, returned >>
              ELSE Raise(FirstKeyError(g))
     ELSE /\ emi_bulk' = EmiNoOverride(args.emi, args.emi_snow, args.snow_f, psi_bulk)
          /\ pc' = "l154"
          /\ UNCHANGED << thermal, psi_canyon, psi_bulk, alb_bulk, returned >>

\* lines 154-165
Return ==
  /\ pc = "l154"
  /\ LET z_0 == Z0of(args.h)
         kBm1 == KBm1of(args.ustar, z_0)
     IN  returned' = Append(returned,
                            [kind |-> "return",
                             value |-> [alb_bulk |-> alb_bulk, emi_bulk |-> emi_bulk,
                                        lam_bulk |-> lam_bulk, Cv_bulk |-> Cv_bulk,
                                        z_0 |-> z_0, kBm1 |-> kBm1]])
  /\ pc' = "idle"
  /\ DropFrame
  /\ UNCHANGED << calls, input, stdout >>

Next ==
  \/ Call
  \/ CheckHtw
  \/ ResolveCv
  \/ ResolveLam
  \/ ThermalProfile
  \/ Albedo
  \/ Emissivity
  \/ Return

Spec == Init /\ [][Next]_vars

(***************************************************************************)
(* Vocabulary of the properties                                            *)
(***************************************************************************)
Complete(kw, ks) == \A i \in 1..Len(ks) : ks[i] \in DOMAIN kw

Absent(kw, ks) == \A i \in 1..Len(ks) : ks[i] \notin DOMAIN kw

Partial(kw, ks) == ~Complete(kw, ks) /\ ~Absent(kw, ks)

Triads == { CvKeys, lamKeys, albKeys, emiKeys }

NoPartialTriad == \A ks \in Triads : ~Partial(kwargs, ks)

InUnit(x) == Leq(Zero, x) /\ Leq(x, One)

Between(x, a, b) == (Leq(a, x) /\ Leq(x, b)) \/ (Leq(b, x) /\ Leq(x, a))

\* the call that has just ended (every call is looked at when it ends), and whether it
\* ended with a result record
Ended == IF pc = "idle" /\ calls >= 1 THEN { calls } ELSE {}

Results == { i \in Ended : returned[i].kind = "return" }

Depth(j) == args.z.v[j]

Layers == 1..Len(args.z.v)

\* the quantities the statements name, written out from the arguments
ExpectedSAI == Add(Mul(Add(One, Mul(Two, args.htw)), Sub(One, args.roof_f)), args.roof_f)

ExpectedPsiCanyon == exp(Mul(Q(-6, 10), args.htw))

ExpectedPsiBulk == Add(args.roof_f, Mul(Sub(One, args.roof_f), ExpectedPsiCanyon))

ExpectedSubstrate(ks, scalar) ==
  IF Complete(kwargs, ks)
  THEN Div(Add(Mul(kwargs[ks[1]], args.roof_f),
               Mul(Add(Mul(Mul(kwargs[ks[2]], Two), args.htw), kwargs[ks[3]]),
                   Sub(One, args.roof_f))),
           ExpectedSAI)
  ELSE scalar

ExpectedCvSurface == Mul(ExpectedSAI, ExpectedSubstrate(CvKeys, args.Cv_s))

ExpectedLamSurface == Mul(ExpectedSAI, ExpectedSubstrate(lamKeys, args.lam_s))

ExpectedAt(d, surface, soil) ==
  LET w == IF Leq(d, args.h) THEN d ELSE args.h
  IN  Add(Mul(Sub(One, Div(w, args.h)), surface), Mul(Div(w, args.h), soil))

ExpectedSnowMix(x, snow) == Add(Mul(Sub(One, args.snow_f), x), Mul(args.snow_f, snow))

\* road + wall weighted by 1 and 2 htw, scaled by psi_canyon, plus the roof
ExpectedFacetMix(road, wall, roof) ==
  Add(Mul(Mul(Div(Add(road, Mul(Mul(Two, args.htw), wall)), Add(One, Mul(Two, args.htw))),
              ExpectedPsiCanyon),
          Sub(One, args.roof_f)),
      Mul(roof, args.roof_f))

ExpectedAlb ==
  IF Complete(kwargs, albKeys)
  THEN ExpectedFacetMix(ExpectedSnowMix(kwargs["alb_road"], args.alb_snow),
                        ExpectedSnowMix(kwargs["alb_wall"], args.alb_snow),
                        ExpectedSnowMix(kwargs["alb_roof"], args.alb_snow))
  ELSE Mul(ExpectedSnowMix(args.alb, args.alb_snow), ExpectedPsiBulk)

\* roofSnow: the snow value blended into the roof facet (the source takes alb_snow there)
ExpectedEmi(roofSnow) ==
  IF Complete(kwargs, emiKeys)
  THEN Sub(One, ExpectedFacetMix(
                  ExpectedSnowMix(Sub(One, kwargs["emi_road"]), Sub(One, args.emi_snow)),
                  ExpectedSnowMix(Sub(One, kwargs["emi_wall"]), Sub(One, args.emi_snow)),
                  ExpectedSnowMix(Sub(One, kwargs["emi_roof"]), Sub(One, roofSnow))))
  ELSE Sub(One, Mul(ExpectedPsiBulk, Sub(One, ExpectedSnowMix(args.emi, args.emi_snow))))

ExpectedZ0 == Mul(Q(75, 1000), args.h)

ExpectedKBm1 ==
  Sub(Mul(Q(129, 100), Pow025(Div(Mul(args.ustar, ExpectedZ0), Q(1461, 100000000)))), Two)

ExpectedRecord ==
  [alb_bulk |-> ExpectedAlb,
   emi_bulk |-> ExpectedEmi(args.alb_snow),
   lam_bulk |-> [shape |-> args.z.shape,
                 v |-> [j \in Layers |-> ExpectedAt(Depth(j), ExpectedLamSurface, args.lam_soil)]],
   Cv_bulk |-> [shape |-> args.z.shape,
                v |-> [j \in Layers |-> ExpectedAt(Depth(j), ExpectedCvSurface, args.Cv_soil)]],
   z_0 |-> ExpectedZ0,
   kBm1 |-> ExpectedKBm1]

HtwWarnings(i) == { k \in 1..Len(stdout[i]) : stdout[i][k].msg = "htw outside of validity range" }

\* the component values and fractions named by the range property
RadiativeInputsValid ==
  /\ InUnit(args.alb) /\ InUnit(args.emi) /\ InUnit(args.alb_snow) /\ InUnit(args.emi_snow)
  /\ InUnit(args.roof_f) /\ InUnit(args.snow_f)
  /\ Leq(Zero, args.htw)
  /\ \A k \in DOMAIN kwargs \cap { albKeys[i] : i \in 1..3 } : InUnit(kwargs[k])
  /\ \A k \in DOMAIN kwargs \cap { emiKeys[i] : i \in 1..3 } : InUnit(kwargs[k])
  /\ Lt(Zero, ExpectedPsiCanyon) /\ Leq(ExpectedPsiCanyon, One)

(***************************************************************************)
(* Properties                                                              *)
(***************************************************************************)
\* C1: with albedos, emissivities and fractions in [0,1], htw >= 0 and psi_canyon in
\* (0,1], the returned alb_bulk and emi_bulk lie in [0,1], in the no-override branch
\* and in the per-facet override branch of both.
C1_BulkInUnitRange ==
  \A i \in Results :
    RadiativeInputsValid =>
      InUnit(returned[i].value.alb_bulk) /\ InUnit(returned[i].value.emi_bulk)

C1_Witness ==
  /\ Results # {}
  /\ RadiativeInputsValid
  /\ Complete(kwargs, albKeys) /\ Complete(kwargs, emiKeys)
  /\ args.snow_f = Q(1, 2) /\ args.roof_f = Q(1, 2)
  /\ Lt(Zero, returned[1].value.alb_bulk) /\ Lt(returned[1].value.emi_bulk, One)

\* C2: a call with a partially supplied override triad (Cv_*, lam_*, alb_*, emi_*)
\* ends in a KeyError for a facet keyword that was not passed and returns no result
\* record; the missing facet is never replaced by a default.
C2_PartialTriadRaises ==
  \A i \in Ended :
    (\E ks \in Triads : Partial(kwargs, ks)) =>
      /\ returned[i].kind = "KeyError"
      /\ returned[i].key \notin DOMAIN kwargs
      /\ \E ks \in Triads : Partial(kwargs, ks) /\ \E j \in 1..3 : ks[j] = returned[i].key

C2_Witness ==
  /\ DOMAIN kwargs = { "Cv_roof" }
  /\ Len(returned) = 1
  /\ returned[1] = [kind |-> "KeyError", key |-> "Cv_wall"]

\* C3: a call with htw > 2.0 prints the validity warning and is not aborted by it: it
\* ends as a call with htw <= 2.0 does (a result record unless a triad is partial),
\* and its six fields are the same expressions of the arguments, htw unclamped; a
\* call with htw <= 2.0 prints no validity warning.
C3_WarningDoesNotAbort ==
  \A i \in Ended :
    /\ NoPartialTriad => returned[i] = [kind |-> "return", value |-> ExpectedRecord]
    /\ Lt(Two, args.htw) => Cardinality(HtwWarnings(i)) = 1
    /\ Leq(args.htw, Two) => HtwWarnings(i) = {}

C3_Witness ==
  /\ args.htw = Q(3, 1)
  /\ Len(returned) = 1
  /\ returned[1].kind = "return"
  /\ Complete(kwargs, albKeys)
  /\ stdout[1] # << >>
  /\ stdout[1][1].msg = "htw outside of validity range"

\* what a call prints, in order: the validity warning, then one message per complete
\* Cv_* and lam_* triad that the call reaches
ExpectedStdout ==
  (IF Lt(Two, args.htw)
   THEN << [msg |-> "htw outside of validity range", val |-> args.htw] >> ELSE << >>)
  \o (IF Complete(kwargs, CvKeys)
      THEN << [msg |-> "Cv_s is calculated", val |-> ExpectedSubstrate(CvKeys, args.Cv_s)] >>
      ELSE << >>)
  \o (IF Complete(kwargs, lamKeys) /\ ~Partial(kwargs, CvKeys)
      THEN << [msg |-> "lam_s is calculated", val |-> ExpectedSubstrate(lamKeys, args.lam_s)] >>
      ELSE << >>)

Deterministic ==
  \A i \in 1..Len(returned), j \in 1..Len(returned) :
    returned[i] = returned[j] /\ stdout[i] = stdout[j]

\* C4 as stated: a call with htw <= 2.0 prints nothing, whatever keywords it is given,
\* and two calls with identical arguments return identical records.
C4_Original ==
  /\ \A i \in Results : Leq(args.htw, Two) => stdout[i] = << >>
  /\ Deterministic

\* C4 amended: the side effects of a call are its advisory messages, namely the validity
\* warning when htw > 2.0 and one message for each complete Cv_* and lam_* triad; the
\* arguments are left as passed; a call with htw <= 2.0 and no Cv_* or lam_* keyword
\* prints nothing; two calls with identical arguments return identical records.
C4_SideEffects ==
  /\ \A i \in Ended : stdout[i] = ExpectedStdout
  /\ \A i \in Ended :
       Leq(args.htw, Two) /\ Absent(kwargs, CvKeys) /\ Absent(kwargs, lamKeys)
         => stdout[i] = << >>
  /\ Deterministic

C4_Witness ==
  /\ Len(returned) = 2
  /\ returned[1].kind = "return" /\ returned[2] = returned[1]
  /\ args.htw = Q(2, 1)
  /\ Complete(kwargs, CvKeys) /\ Absent(kwargs, lamKeys)
  /\ stdout[2] = << [msg |-> "Cv_s is calculated", val |-> ExpectedSubstrate(CvKeys, args.Cv_s)] >>

\* C5: for h > 0 and every depth d >= 0 in z the blending weight is min(d, h); at d = 0
\* Cv_bulk = SAI*Cv_s and lam_bulk = SAI*lam_s, and for every d >= h Cv_bulk = Cv_soil
\* and lam_bulk = lam_soil exactly (depths [0, 7.5, 15, 30] with h = 15 give weights
\* [0, 7.5, 15, 15]).
C5_ClampedWeight ==
  /\ pc \in { "l131", "l144", "l154" } =>
       /\ Len(weight.v) = Len(args.z.v)
       /\ \A j \in Layers :
            /\ weight.v[j] = (IF Leq(Depth(j), args.h) THEN Depth(j) ELSE args.h)
            /\ Depth(j) = Zero =>
                 Cv_bulk.v[j] = Mul(SAI, Cv_s) /\ lam_bulk.v[j] = Mul(SAI, lam_s)
            /\ Leq(args.h, Depth(j)) =>
                 Cv_bulk.v[j] = args.Cv_soil /\ lam_bulk.v[j] = args.lam_soil
       /\ args.z = Array(ScenarioDepths) /\ args.h = Q(15, 1) =>
            weight = Array(<< Zero, Q(15, 2), Q(15, 1), Q(15, 1) >>)
  /\ \A i \in Results : \A j \in Layers :
       /\ Depth(j) = Zero =>
            /\ returned[i].value.Cv_bulk.v[j] = ExpectedCvSurface
            /\ returned[i].value.lam_bulk.v[j] = ExpectedLamSurface
       /\ Leq(args.h, Depth(j)) =>
            /\ returned[i].value.Cv_bulk.v[j] = args.Cv_soil
            /\ returned[i].value.lam_bulk.v[j] = args.lam_soil

C5_Witness ==
  /\ pc = "l131"
  /\ args.z = Array(ScenarioDepths) /\ args.h = Q(15, 1)
  /\ weight = Array(<< Zero, Q(15, 2), Q(15, 1), Q(15, 1) >>)
  /\ Cv_bulk.v[4] = args.Cv_soil /\ Cv_bulk.v[1] # args.Cv_soil

\* C6 as stated: with snow_f = 1.0, with or without per-facet albedo or emissivity
\* overrides, alb_bulk = alb_snow * psi_bulk and emi_bulk = 1 - psi_bulk*(1 - emi_snow),
\* where psi_bulk = roof_f + (1 - roof_f)*psi_canyon.
C6_FullSnow ==
  \A i \in Results :
    args.snow_f = One =>
      /\ returned[i].value.alb_bulk = Mul(args.alb_snow, ExpectedPsiBulk)
      /\ returned[i].value.emi_bulk = Sub(One, Mul(ExpectedPsiBulk, Sub(One, args.emi_snow)))

\* C7 as stated: for every call with roof_f = 1.0 and any htw,
\* alb_bulk = (1 - snow_f)*alb + snow_f*alb_snow.
C7_Original ==
  \A i \in Results :
    args.roof_f = One => returned[i].value.alb_bulk = ExpectedSnowMix(args.alb, args.alb_snow)

\* C7 amended: for every call with roof_f = 1.0 and any htw,
\* alb_bulk = (1 - snow_f)*alb + snow_f*alb_snow when no albedo override is passed, and
\* alb_bulk = (1 - snow_f)*alb_roof + snow_f*alb_snow when the alb_* triad is passed.
C7_FullRoofAlbedo ==
  \A i \in Results :
    args.roof_f = One =>
      returned[i].value.alb_bulk =
        ExpectedSnowMix(IF Complete(kwargs, albKeys) THEN kwargs["alb_roof"] ELSE args.alb,
                        args.alb_snow)

C7_Witness ==
  /\ Results # {}
  /\ args.roof_f = One /\ args.htw = Q(3, 1) /\ args.snow_f = Q(1, 2)
  /\ Absent(kwargs, albKeys)
  /\ args.alb = One /\ args.alb_snow = Zero
  /\ returned[1].value.alb_bulk = Q(1, 2)

\* C8: when roof_f = 1.0 the surface area index is 1 for every htw, so at depth 0
\* Cv_bulk equals Cv_s and lam_bulk equals lam_s, the substrate values, which do not
\* depend on htw.
C8_FullRoofSAI ==
  /\ pc \in { "l112", "l115", "l121", "l131", "l144", "l154" } /\ args.roof_f = One
       => SAI = One
  /\ pc \in { "l131", "l144", "l154" } /\ args.roof_f = One =>
       /\ Cv_s = (IF Complete(kwargs, CvKeys) THEN kwargs["Cv_roof"] ELSE args.Cv_s)
       /\ lam_s = (IF Complete(kwargs, lamKeys) THEN kwargs["lam_roof"] ELSE args.lam_s)
       /\ \A j \in Layers :
            Depth(j) = Zero => Cv_bulk.v[j] = Cv_s /\ lam_bulk.v[j] = lam_s
  /\ \A i \in Results : \A j \in Layers :
       args.roof_f = One /\ Depth(j) = Zero =>
         /\ returned[i].value.Cv_bulk.v[j]
              = (IF Complete(kwargs, CvKeys) THEN kwargs["Cv_roof"] ELSE args.Cv_s)
         /\ returned[i].value.lam_bulk.v[j]
              = (IF Complete(kwargs, lamKeys) THEN kwargs["lam_roof"] ELSE args.lam_s)

C8_Witness ==
  /\ pc = "l131"
  /\ args.roof_f = One /\ args.htw = Q(3, 1)
  /\ SAI = One
  /\ args.z = Array(<< Q(30, 1), Zero >>)
  /\ Cv_bulk.v[2] = args.Cv_s /\ Cv_bulk.v[1] # args.Cv_s

\* C9 as stated: with alb_roof = alb_wall = alb_road = a the call returns the alb_bulk
\* of the call without albedo overrides and alb = a, and with
\* emi_roof = emi_wall = emi_road = e it returns the emi_bulk of the call without
\* emissivity overrides and emi = e.
C9_UniformFacets ==
  \A i \in Results :
    /\ Complete(kwargs, albKeys)
       /\ kwargs["alb_wall"] = kwargs["alb_roof"] /\ kwargs["alb_road"] = kwargs["alb_roof"]
         => returned[i].value.alb_bulk
              = Mul(ExpectedSnowMix(kwargs["alb_roof"], args.alb_snow), ExpectedPsiBulk)
    /\ Complete(kwargs, emiKeys)
       /\ kwargs["emi_wall"] = kwargs["emi_roof"] /\ kwargs["emi_road"] = kwargs["emi_roof"]
         => returned[i].value.emi_bulk
              = Sub(One, Mul(ExpectedPsiBulk,
                             Sub(One, ExpectedSnowMix(kwargs["emi_roof"], args.emi_snow))))

\* C10: the depth profile is evaluated element-wise: Cv_bulk and lam_bulk have as many
\* entries as z, a scalar depth gives a scalar, the j-th entry is the value of the scalar
\* depth z[j] whatever its position and the other depths, for 0 <= z[j] <= h it is
\* (1 - z[j]/h)*SAI*prop_s + (z[j]/h)*prop_soil, and it lies between the surface bulk
\* value and the soil value.
C10_ElementWise ==
  \A i \in Results :
    LET cv == returned[i].value.Cv_bulk
        lam == returned[i].value.lam_bulk
    IN  /\ cv.shape = args.z.shape /\ lam.shape = args.z.shape
        /\ Len(cv.v) = Len(args.z.v) /\ Len(lam.v) = Len(args.z.v)
        /\ \A j \in Layers :
             /\ cv.v[j] = ExpectedAt(Depth(j), ExpectedCvSurface, args.Cv_soil)
             /\ lam.v[j] = ExpectedAt(Depth(j), ExpectedLamSurface, args.lam_soil)
             /\ Leq(Depth(j), args.h) =>
                  /\ cv.v[j] = Add(Mul(Sub(One, Div(Depth(j), args.h)), ExpectedCvSurface),
                                   Mul(Div(Depth(j), args.h), args.Cv_soil))
                  /\ lam.v[j] = Add(Mul(Sub(One, Div(Depth(j), args.h)), ExpectedLamSurface),
                                    Mul(Div(Depth(j), args.h), args.lam_soil))
             /\ Between(cv.v[j], ExpectedCvSurface, args.Cv_soil)
             /\ Between(lam.v[j], ExpectedLamSurface, args.lam_soil)

C10_Witness ==
  /\ Results # {}
  /\ args.z = Array(<< Q(30, 1), Q(15, 2) >>) /\ args.h = Q(15, 1)
  /\ Complete(kwargs, CvKeys)
  /\ returned[1].value.Cv_bulk.v[1] = args.Cv_soil
  /\ returned[1].value.Cv_bulk.v[2] # args.Cv_soil
  /\ returned[1].value.Cv_bulk.v[2] # ExpectedCvSurface

====
